---- MODULE Spec2Model ----
(***************************************************************************)
(* The task list client of frontend/src/App.js: the four pieces of React   *)
(* state of the App component, the four asynchronous handlers that read    *)
(* and write them, and the requests those handlers have in flight.         *)
(*                                                                         *)
(* A handler is a closure of the render it was created in: the `tasks` and *)
(* `newTask` it reads after an `await` are the values of the render in     *)
(* which the user triggered it, which the request record keeps as `snap`   *)
(* and `title`.  A handler writes no state between `await fetch(...)` and  *)
(* `await response.json()`, so the two are one step here: the step in      *)
(* which the handler learns how its request ended and runs to its end.     *)
(***************************************************************************)
EXTENDS Integers, Sequences, FiniteSets, TLC

VARIABLES
  tasks,        \* useState([])     : the collection, a sequence of tasks
  newTask,      \* useState('')     : the input buffer, a sequence of characters
  loading,      \* useState(false)  : the busy flag
  error,        \* useState(null)   : the last-error value
  mounted,      \* the mount effect (useEffect(..., [])) has run
  inflight,     \* the handlers suspended at an await, one record each
  started,      \* number of requests issued so far (the next request id)
  last,         \* history: the step taken last
  ideal,        \* history: last successful List, patched by every later success
  recentFailure,\* history: message of the most recent failure, Null once an
                \* operation has been started after it
  delivered     \* history: the tasks successful responses have carried

vars == <<tasks, newTask, loading, error, mounted, inflight, started, last,
          ideal, recentFailure, delivered>>

----------------------------------------------------------------------------
(* Bounds of the model *)

MaxId == 2      \* the server's ids are 1..MaxId
MaxOps == 3     \* requests issued in one run, the startup List included

----------------------------------------------------------------------------
(* Values *)

Null == "null"

Ids == 1..MaxId
Titles == {"a"}
Task == [id : Ids, title : Titles, completed : BOOLEAN]

(* The input buffers tried: empty, white space only, and a title. *)
Buffers == {<<>>, <<" ", " ">>, <<" ", "x">>}
(* The arrays a List response is tried with: the empty array and every    *)
(* array of one task.  Longer collections come from Create.                *)
TaskArrays == {<<>>} \cup {<<t>> : t \in Task}

(* String.prototype.trim: strip the white space at both ends. *)
RECURSIVE TrimLeft(_)
TrimLeft(s) == IF s # <<>> /\ Head(s) = " " THEN TrimLeft(Tail(s)) ELSE s

RECURSIVE TrimRight(_)
TrimRight(s) ==
  IF s # <<>> /\ s[Len(s)] = " " THEN TrimRight(SubSeq(s, 1, Len(s) - 1)) ELSE s

trimNothing(s) == s

trim(s) == TrimRight(TrimLeft(s))

(* The messages of the four `throw new Error(...)` statements. *)
ThrownMessage(op) ==
  CASE op = "list"   -> "Failed to fetch tasks"
    [] op = "create" -> "Failed to add task"
    [] op = "toggle" -> "Failed to update task"
    [] op = "delete" -> "Failed to delete task"

(* What the awaited promise rejects with when it is not one of those:      *)
(* fetch() rejects with a TypeError whose message the browser chooses,     *)
(* response.json() with a SyntaxError whose message the parser chooses.    *)
NetworkMessages == {"Failed to fetch"}
SyntaxMessages == {"Unexpected end of JSON input"}

(* err.message in the catch block, by what made the try block throw. *)
CaughtMessages(op, outcome) ==
  CASE outcome = "reject"    -> NetworkMessages
    [] outcome = "non2xx"    -> {ThrownMessage(op)}
    [] outcome = "malformed" -> SyntaxMessages

(* How a request can end: fetch() rejects; fetch() resolves with a status  *)
(* outside 200..299; it resolves with a 2xx status and response.json()     *)
(* rejects; or both resolve.                                               *)
Outcomes == {"reject", "non2xx", "malformed", "success"}

responseOkAlways(outcome) == TRUE

(* response.ok, for the outcomes in which fetch() resolved *)
responseOk(outcome) == outcome \in {"malformed", "success"}

(* The try block reaches its last statement. *)
Completes(outcome, parses) ==
  /\ outcome # "reject"
  /\ responseOk(outcome)
  /\ parses => outcome = "success"

----------------------------------------------------------------------------
(* The three setTasks arguments *)

\* [...tasks, data]
addTaskPatch(snap, data) == Append(snap, data)

toggleTaskPatchAll(snap, id, data) == [i \in DOMAIN snap |-> data]

toggleTaskPatchFlip(snap, id, data) ==
  [i \in DOMAIN snap |->
     IF snap[i].id = id
       THEN [snap[i] EXCEPT !.completed = ~snap[i].completed]
       ELSE snap[i]]

\* tasks.map(t => t.id === id ? data : t)
toggleTaskPatch(snap, id, data) ==
  [i \in DOMAIN snap |-> IF snap[i].id = id THEN data ELSE snap[i]]

\* tasks.filter(t => t.id !== id)
deleteTaskPatch(snap, id) == SelectSeq(snap, LAMBDA t : t.id # id)

----------------------------------------------------------------------------
(* History records *)

(* ev: what the step was; outcome: how the request ended; data: the parsed *)
(* body; stale: the collection changed since the handler was triggered;    *)
(* cleared: an error was showing when the operation was started.           *)
Step(ev, op, rid, id, outcome, data, stale, cleared) ==
  [ev |-> ev, op |-> op, rid |-> rid, id |-> id, outcome |-> outcome,
   data |-> data, stale |-> stale, cleared |-> cleared]

Mutations == {"create", "toggle", "delete"}

(* A suspended handler: the request it sent (the title and completed of    *)
(* its JSON body, the id of its URL) and the `tasks` of its closure.       *)
Request(op, id, completed) ==
  [rid |-> started, op |-> op, id |-> id, snap |-> tasks,
   title |-> IF op = "create" THEN newTask ELSE <<>>,
   completed |-> completed]

closureTasksCurrent(r) == tasks

(* The `tasks` a suspended handler reads when it resumes: the constant of  *)
(* the render that created the handler, not the state at that moment.      *)
closureTasks(r) == r.snap

(* Start of any operation: the request is sent, the handler suspends. *)
Send(op, id, completed) ==
  /\ started < MaxOps
  /\ inflight' = inflight \cup {Request(op, id, completed)}
  /\ started' = started + 1
  /\ recentFailure' = Null
  /\ UNCHANGED delivered
  /\ last' = Step("start", op, started, id, "none", <<>>, FALSE, error # Null)

(* The handler resumes with a failure: the catch block. *)
Catch(r, outcome) ==
  /\ \E m \in CaughtMessages(r.op, outcome) :
       /\ error' = m
       /\ recentFailure' = m
  /\ inflight' = inflight \ {r}
  /\ last' = Step("resp", r.op, r.rid, r.id, outcome, <<>>, r.snap # tasks, FALSE)
  /\ UNCHANGED <<tasks, newTask, mounted, started, ideal, delivered>>

(* The handler resumes with what it awaited and runs to the end of try. *)
Succeed(r, outcome, data, newIdeal) ==
  /\ inflight' = inflight \ {r}
  /\ last' = Step("resp", r.op, r.rid, r.id, outcome, data, r.snap # tasks, FALSE)
  /\ ideal' = newIdeal
  /\ delivered' = delivered \cup {data[i] : i \in DOMAIN data}
  /\ UNCHANGED <<error, mounted, started, recentFailure>>

----------------------------------------------------------------------------
(* fetchTasks *)

fetchTasks ==
  /\ loading' = TRUE
  /\ error' = Null
  /\ Send("list", 0, FALSE)
  /\ UNCHANGED <<tasks, newTask, ideal>>

fetchTasksSettledKeepsBusy(r) ==
  /\ r.op = "list"
  /\ \E outcome \in Outcomes :
       IF Completes(outcome, TRUE)
         THEN \E data \in TaskArrays :
                /\ tasks' = data
                /\ Succeed(r, outcome, data, data)
                /\ UNCHANGED <<newTask, loading>>
         ELSE Catch(r, outcome) /\ loading' = FALSE

fetchTasksSettled(r) ==
  /\ r.op = "list"
  /\ \E outcome \in Outcomes :
       IF Completes(outcome, TRUE)
         THEN \E data \in TaskArrays :
                /\ tasks' = data
                /\ Succeed(r, outcome, data, data)
                /\ UNCHANGED newTask
         ELSE Catch(r, outcome)
  /\ loading' = FALSE

MountEveryRender ==
  /\ mounted' = TRUE
  /\ fetchTasks

(* useEffect(() => { fetchTasks(); }, []) *)
Mount ==
  /\ ~mounted
  /\ mounted' = TRUE
  /\ fetchTasks

----------------------------------------------------------------------------
(* addTask *)

addTask ==
  IF trim(newTask) = <<>>
    THEN /\ last' = Step("blank", "create", started, 0, "none", <<>>, FALSE, FALSE)
         /\ UNCHANGED <<tasks, newTask, loading, error, mounted, inflight,
                        started, ideal, recentFailure, delivered>>
    ELSE /\ loading' = TRUE
         /\ error' = Null
         /\ Send("create", 0, FALSE)
         /\ UNCHANGED <<tasks, newTask, mounted, ideal>>

addTaskSettledNoCatch(r) ==
  /\ r.op = "create"
  /\ \E outcome \in Outcomes :
       IF Completes(outcome, TRUE)
         THEN \E data \in Task :
                /\ tasks' = addTaskPatch(closureTasks(r), data)
                /\ newTask' = <<>>
                /\ loading' = FALSE
                /\ Succeed(r, outcome, <<data>>, addTaskPatch(ideal, data))
         ELSE /\ inflight' = inflight \ {r}
              /\ last' = Step("resp", r.op, r.rid, r.id, outcome, <<>>,
                              r.snap # tasks, FALSE)
              /\ UNCHANGED <<tasks, newTask, loading, error, mounted, started,
                             ideal, recentFailure, delivered>>

addTaskSettled(r) ==
  /\ r.op = "create"
  /\ \E outcome \in Outcomes :
       IF Completes(outcome, TRUE)
         THEN \E data \in Task :
                /\ tasks' = addTaskPatch(closureTasks(r), data)
                /\ newTask' = <<>>
                /\ Succeed(r, outcome, <<data>>, addTaskPatch(ideal, data))
         ELSE Catch(r, outcome)
  /\ loading' = FALSE

----------------------------------------------------------------------------
(* toggleTask *)

toggleTaskKeepsError(id, completed) ==
  /\ Send("toggle", id, ~completed)
  /\ UNCHANGED <<tasks, newTask, loading, error, mounted, ideal>>

toggleTask(id, completed) ==
  /\ error' = Null
  /\ Send("toggle", id, ~completed)
  /\ UNCHANGED <<tasks, newTask, loading, mounted, ideal>>

toggleTaskSettled(r) ==
  /\ r.op = "toggle"
  /\ \E outcome \in Outcomes :
       IF Completes(outcome, TRUE)
         THEN \E data \in Task :
                /\ tasks' = toggleTaskPatch(closureTasks(r), r.id, data)
                /\ Succeed(r, outcome, <<data>>, toggleTaskPatch(ideal, r.id, data))
                /\ UNCHANGED newTask
         ELSE Catch(r, outcome)
  /\ UNCHANGED loading

----------------------------------------------------------------------------
(* deleteTask *)

deleteTaskBusy(id) ==
  /\ loading' = TRUE
  /\ error' = Null
  /\ Send("delete", id, FALSE)
  /\ UNCHANGED <<tasks, newTask, mounted, ideal>>

deleteTaskOptimistic(id) ==
  /\ error' = Null
  /\ tasks' = deleteTaskPatch(tasks, id)
  /\ Send("delete", id, FALSE)
  /\ UNCHANGED <<newTask, loading, mounted, ideal>>

deleteTask(id) ==
  /\ error' = Null
  /\ Send("delete", id, FALSE)
  /\ UNCHANGED <<tasks, newTask, loading, mounted, ideal>>

\* the body is never read: a 2xx response whose body is malformed succeeds
deleteTaskSettled(r) ==
  /\ r.op = "delete"
  /\ \E outcome \in Outcomes :
       IF Completes(outcome, FALSE)
         THEN /\ tasks' = deleteTaskPatch(closureTasks(r), r.id)
              /\ Succeed(r, outcome, <<>>, deleteTaskPatch(ideal, r.id))
              /\ UNCHANGED newTask
         ELSE Catch(r, outcome)
  /\ UNCHANGED loading

----------------------------------------------------------------------------
(* The rendered controls *)

formAlwaysEnabled == TRUE

\* disabled={loading} on the text input and on the submit button
formEnabled == ~loading

\* onChange={(e) => setNewTask(e.target.value)}
Type ==
  /\ mounted /\ formEnabled
  /\ \E s \in Buffers :
       /\ s # newTask
       /\ newTask' = s
       /\ last' = Step("type", "none", started, 0, "none", <<>>, FALSE, FALSE)
  /\ UNCHANGED <<tasks, loading, error, mounted, inflight, started, ideal,
                 recentFailure, delivered>>

SubmitWhileDisabled == mounted /\ addTask

\* <form onSubmit={addTask}>
Submit == mounted /\ formEnabled /\ addTask

\* one checkbox per rendered task: onChange={() => toggleTask(task.id, task.completed)}
Check == mounted /\ \E i \in DOMAIN tasks : toggleTask(tasks[i].id, tasks[i].completed)

\* one button per rendered task: onClick={() => deleteTask(task.id)}
Click == mounted /\ \E i \in DOMAIN tasks : deleteTask(tasks[i].id)

----------------------------------------------------------------------------

Init ==
  /\ tasks = <<>>
  /\ newTask = <<>>
  /\ loading = FALSE
  /\ error = Null
  /\ mounted = FALSE
  /\ inflight = {}
  /\ started = 0
  /\ last = Step("init", "none", 0, 0, "none", <<>>, FALSE, FALSE)
  /\ ideal = <<>>
  /\ recentFailure = Null
  /\ delivered = {}

Next ==
  \/ Mount
  \/ Type
  \/ Submit
  \/ Check
  \/ Click
  \/ \E r \in inflight : fetchTasksSettled(r)
  \/ \E r \in inflight : addTaskSettled(r)
  \/ \E r \in inflight : toggleTaskSettled(r)
  \/ \E r \in inflight : deleteTaskSettled(r)

Spec == Init /\ [][Next]_vars

(* The same client against a server that keeps to its interface: the task *)
(* a Toggle response carries has the id the request named.                 *)
toggleTaskSettledRest(r) ==
  /\ toggleTaskSettled(r)
  /\ last'.data # <<>> => last'.data[1].id = r.id

NextRest ==
  \/ Mount
  \/ Type
  \/ Submit
  \/ Check
  \/ Click
  \/ \E r \in inflight : fetchTasksSettled(r)
  \/ \E r \in inflight : addTaskSettled(r)
  \/ \E r \in inflight : toggleTaskSettledRest(r)
  \/ \E r \in inflight : deleteTaskSettled(r)

SpecRest == Init /\ [][NextRest]_vars

(* The same client against a server that also gives every created task an *)
(* id it has not sent before and lists no id twice.                        *)
NoDuplicateIds(seq) ==
  \A i, j \in DOMAIN seq : seq[i].id = seq[j].id => i = j

fetchTasksSettledUnique(r) ==
  /\ fetchTasksSettled(r)
  /\ NoDuplicateIds(last'.data)

addTaskSettledFresh(r) ==
  /\ addTaskSettled(r)
  /\ last'.data # <<>> => last'.data[1].id \notin {t.id : t \in delivered}

NextHonest ==
  \/ Mount
  \/ Type
  \/ Submit
  \/ Check
  \/ Click
  \/ \E r \in inflight : fetchTasksSettledUnique(r)
  \/ \E r \in inflight : addTaskSettledFresh(r)
  \/ \E r \in inflight : toggleTaskSettledRest(r)
  \/ \E r \in inflight : deleteTaskSettled(r)

SpecHonest == Init /\ [][NextHonest]_vars

----------------------------------------------------------------------------
(* Vocabulary of the properties *)

(* A request failed: it was rejected, answered outside 2xx, or its body    *)
(* could not be parsed by an operation that reads the body.                *)
Failed(op, outcome) ==
  \/ outcome \in {"reject", "non2xx"}
  \/ outcome = "malformed" /\ op # "delete"

RespFailed(step) == step.ev = "resp" /\ Failed(step.op, step.outcome)
RespSucceeded(step) == step.ev = "resp" /\ ~Failed(step.op, step.outcome)

FixedMessages ==
  {"Failed to fetch tasks", "Failed to add task", "Failed to update task",
   "Failed to delete task"}

FixedMessageOf(op) ==
  CASE op = "list"   -> "Failed to fetch tasks"
    [] op = "create" -> "Failed to add task"
    [] op = "toggle" -> "Failed to update task"
    [] op = "delete" -> "Failed to delete task"

IdsOf(seq) == [i \in DOMAIN seq |-> seq[i].id]
Without(seq, id) == SelectSeq(seq, LAMBDA t : t.id # id)
Replaced(seq, id, t) == [i \in DOMAIN seq |-> IF seq[i].id = id THEN t ELSE seq[i]]
IsBlank(s) == \A i \in DOMAIN s : s[i] = " "

(* A collection with only the patch of one operation applied. *)
OnlyPatch(seq, op, id, data) ==
  CASE op = "create" -> Append(seq, data[1])
    [] op = "toggle" -> Replaced(seq, id, data[1])
    [] op = "delete" -> Without(seq, id)

----------------------------------------------------------------------------
(* C1: in every reachable state the collection equals the last successful  *)
(* List with the patch of every successful Create, Toggle and Delete that  *)
(* completed since then applied in completion order; no patch is dropped.  *)
C1_CollectionIsPatchedFetch == tasks = ideal

(* C2: a failed List, Create, Toggle or Delete leaves the collection as it *)
(* was right before its response was processed, and a failed Create leaves *)
(* the input buffer as it was.                                             *)
C2_FailureChangesNothing ==
  [][RespFailed(last') =>
       /\ tasks' = tasks
       /\ last'.op = "create" => newTask' = newTask]_vars

C2_Witness ==
  /\ RespFailed(last)
  /\ last.op = "create"
  /\ tasks # <<>>
  /\ ~IsBlank(newTask)

(* C3: whenever an operation fails, the error it stores is the fixed       *)
(* message of that operation, whatever the failure kind, and the error     *)
(* value is never any other string.                                        *)
C3_ErrorIsFixedMessage ==
  /\ error \in FixedMessages \cup {Null}
  /\ RespFailed(last) => error = FixedMessageOf(last.op)

(* C4: the busy flag is true exactly when a List or Create request has     *)
(* been issued and its response has not been processed; outstanding        *)
(* Toggle or Delete requests do not make it true.                          *)
C4_BusyIffListOrCreateOutstanding ==
  loading <=> (\E r \in inflight : r.op \in {"list", "create"})

C4_Witness ==
  /\ ~loading
  /\ last.ev = "resp" /\ last.op = "create"
  /\ \E r \in inflight : r.op \in {"toggle", "delete"}

(* C5: after a successful Delete(id) response is processed the collection  *)
(* holds no task with that id and equals the collection as it was right    *)
(* before the response was processed with only that task removed.          *)
C5_DeleteRemovesOnlyThatTask ==
  [][(RespSucceeded(last') /\ last'.op = "delete") =>
       /\ \A i \in DOMAIN tasks' : tasks'[i].id # last'.id
       /\ tasks' = Without(tasks, last'.id)]_vars

(* C6: after a Toggle response is processed the collection has the same    *)
(* ids in the same positions as right before it (on success and on         *)
(* failure), and on success the entry with that id equals the task the     *)
(* server returned while every other entry is unchanged.                   *)
C6_ToggleKeepsIdsAndReplacesOne ==
  [][(last'.ev = "resp" /\ last'.op = "toggle") =>
       /\ IdsOf(tasks') = IdsOf(tasks)
       /\ RespSucceeded(last') => tasks' = Replaced(tasks, last'.id, last'.data[1])]_vars

(* C7: after a successful Create response is processed the collection is   *)
(* the collection as it was right before with the returned task appended,  *)
(* the input buffer is empty and busy is false.                            *)
C7_CreateAppendsToCurrent ==
  [][(RespSucceeded(last') /\ last'.op = "create") =>
       /\ tasks' = Append(tasks, last'.data[1])
       /\ newTask' = <<>>
       /\ loading' = FALSE]_vars

(* C8: Create invoked with a buffer that is empty or only white space      *)
(* sends no request and changes no state: collection, buffer, busy flag    *)
(* and error are unchanged.                                                *)
C8_BlankCreateIsNoOp ==
  [][(last'.ev \in {"start", "blank"} /\ last'.op = "create" /\ IsBlank(newTask)) =>
       UNCHANGED <<tasks, newTask, loading, error, inflight, started>>]_vars

C8_Witness ==
  /\ last.ev = "blank"
  /\ newTask = <<" ", " ">>
  /\ error # Null

(* C9: when mutations overlap and succeed, the collection after a response *)
(* is the snapshot its operation captured at invocation with only that     *)
(* operation's patch applied: the response that arrives last decides, and  *)
(* the patches are not merged.                                             *)
C9_LastResponseWins ==
  [][(RespSucceeded(last') /\ last'.op \in Mutations) =>
       \A r \in inflight :
         r.rid = last'.rid =>
           tasks' = OnlyPatch(r.snap, r.op, r.id, last'.data)]_vars

C9_Witness ==
  /\ RespSucceeded(last)
  /\ last.op \in Mutations
  /\ last.stale
  /\ tasks # ideal

(* C10: starting List, Create with a non-blank title, Toggle or Delete     *)
(* unsets the error in the step that starts it; whenever the error is set  *)
(* it is the message of the most recent failure and no operation has been  *)
(* started since that failure.                                             *)
C10_StartClearsError ==
  [][/\ last'.ev = "start" => error' = Null
     /\ error' # Null => error' = recentFailure']_vars

C10_Witness ==
  /\ last.ev = "start"
  /\ last.cleared
  /\ error = Null
  /\ inflight # {}

(* C11: List is invoked once, at startup, and never again; until the       *)
(* response of that List is processed the collection is empty, and in that *)
(* time busy is true exactly while the List is outstanding.                *)
C11_ListOnceAtStartup ==
  /\ \A r \in inflight : r.op = "list" => r.rid = 0
  /\ last.op = "list" => last.rid = 0
  /\ mounted <=> started > 0
  /\ ~mounted => tasks = <<>> /\ ~loading
  /\ \A r \in inflight : r.op = "list" => tasks = <<>> /\ loading

C11_Witness ==
  /\ mounted
  /\ \E r \in inflight : r.op = "list"
  /\ loading
  /\ tasks = <<>>

(* C12: after a successful List response is processed the collection is    *)
(* the array the server sent, the error is unset and busy is false.        *)
C12_ListReplacesCollection ==
  [][(RespSucceeded(last') /\ last'.op = "list") =>
       /\ tasks' = last'.data
       /\ error' = Null
       /\ loading' = FALSE]_vars

C12_Witness ==
  /\ RespSucceeded(last)
  /\ last.op = "list"
  /\ last.data # <<>>
  /\ tasks = last.data

(* C13: every task of the collection, in every reachable state, is an      *)
(* object a successful List, Create or Toggle response delivered.          *)
C13_TasksComeFromServer ==
  \A i \in DOMAIN tasks : tasks[i] \in delivered

C13_Witness ==
  /\ RespSucceeded(last)
  /\ last.op = "toggle"
  /\ \E i \in DOMAIN tasks : tasks[i] = last.data[1]
  /\ Cardinality(delivered) > 1

(* C14: an operation writes the collection only in the step that processes *)
(* its response: starting List, Create, Toggle or Delete leaves the        *)
(* collection as it is, and so does every step that is no response.        *)
C14_NoOptimisticUpdate ==
  [][/\ last'.ev = "start" => tasks' = tasks
     /\ tasks' # tasks => RespSucceeded(last')]_vars

C14_Witness ==
  /\ last.ev = "start"
  /\ last.op = "delete"
  /\ \E i \in DOMAIN tasks : tasks[i].id = last.id

(* C15: an operation whose request gets an outcome ends in the step that   *)
(* processes it, with its patch applied or with the error set, and a List  *)
(* or Create ends with busy false on the success and on the failure path.  *)
C15_OperationEndsContained ==
  [][last'.ev = "resp" =>
       \A r \in inflight :
         r.rid = last'.rid =>
           /\ \A q \in inflight' : q.rid # r.rid
           /\ RespSucceeded(last') =>
                tasks' = IF r.op = "list" THEN last'.data
                         ELSE OnlyPatch(r.snap, r.op, r.id, last'.data)
           /\ RespFailed(last') => error' # Null
           /\ r.op \in {"list", "create"} => loading' = FALSE]_vars

C15_Witness ==
  /\ RespFailed(last)
  /\ last.op = "create"
  /\ last.outcome = "reject"
  /\ error # Null
  /\ ~loading

(* C16: Toggle and Delete never change the busy flag or the input buffer,  *)
(* when started or when their response is processed, on success or on      *)
(* failure; they write the collection on success only.                     *)
C16_ToggleDeleteFrame ==
  [][(last'.op \in {"toggle", "delete"} /\ last'.ev \in {"start", "resp"}) =>
       /\ loading' = loading
       /\ newTask' = newTask
       /\ tasks' # tasks => RespSucceeded(last')]_vars

C16_Witness ==
  /\ last.op \in {"toggle", "delete"}
  /\ last.ev = "resp"
  /\ loading
  /\ newTask # <<>>

(* C17: when a Toggle or Delete succeeds for an id that no task of the     *)
(* collection has, the collection after the response is the collection     *)
(* right before it.                                                        *)
C17_AbsentIdIsNoOp ==
  [][(/\ RespSucceeded(last')
      /\ last'.op \in {"toggle", "delete"}
      /\ \A i \in DOMAIN tasks : tasks[i].id # last'.id) =>
       tasks' = tasks]_vars

(* C18: at most one List or Create request is outstanding at any time, and *)
(* a Create is never started while busy is true.                           *)
C18_OneBusyRequest ==
  [][/\ Cardinality({r \in inflight' : r.op \in {"list", "create"}}) <= 1
     /\ (last'.ev = "start" /\ last'.op = "create") => ~loading]_vars

C18_Witness ==
  /\ last.ev = "start"
  /\ last.op = "create"
  /\ loading
  /\ Cardinality({r \in inflight : r.op \in {"list", "create"}}) = 1
  /\ \E r \in inflight : r.op \in {"toggle", "delete"}

(* C19: with a server that gives every created task a fresh id, lists no   *)
(* id twice and answers a Toggle with the requested id, the collection     *)
(* never holds two tasks with the same id.                                 *)
C19_NoDuplicateIds == NoDuplicateIds(tasks)

C19_Witness ==
  /\ Len(tasks) = 2
  /\ RespSucceeded(last)
  /\ last.op = "create"
  /\ last.stale

====
